---- MODULE Spec2Model ----
(***************************************************************************)
(* Model of md_tex2img.py: the md_textool pipeline that extracts tagged    *)
(* LaTeX snippets from a markdown text, compiles and rasterizes each of    *)
(* them, and writes a copy of the text with image links in their place.    *)
(*                                                                         *)
(* Texts and paths are sequences of one-character strings, so that the     *)
(* Python string operations (in, index, slicing, replace, split, lower,    *)
(* format) are computed character by character.                            *)
(***************************************************************************)
EXTENDS Integers, Sequences, FiniteSets, TLC

(***************************************************************************)
(* Bounds of the model.                                                    *)
(***************************************************************************)
\* a document is a concatenation of at most MaxTokens tokens
MaxTokens == 4
\* documents of the runs that vary the input path and the working folder
MaxTokensIO == 3
\* cap on the iterations of the scanning loop
IterCap == 12
\* longest list of source paths handed to convert_all_tex_to_pdf
MaxPaths == 3

(***************************************************************************)
(* Python string primitives.                                               *)
(***************************************************************************)
\* Python's None: a value that is no text, no path and no box
None == <<"None">>

\* s[a:b] with 0-based a and exclusive b, both within 0..len(s)
Slice(s, a, b) == SubSeq(s, a + 1, b)

\* t in s
Contains(s, t) ==
    \E k \in 0..(Len(s) - Len(t)) : Slice(s, k, k + Len(t)) = t

\* s.index(t): 0-based position of the leftmost occurrence (t in s is known)
Index(s, t) ==
    CHOOSE k \in 0..(Len(s) - Len(t)) :
        /\ Slice(s, k, k + Len(t)) = t
        /\ \A j \in 0..(k - 1) : Slice(s, j, j + Len(t)) # t

\* s.replace(old, new, 1)
Replace1(s, old, new) ==
    IF Contains(s, old)
    THEN LET k == Index(s, old)
         IN  Slice(s, 0, k) \o new \o Slice(s, k + Len(old), Len(s))
    ELSE s

\* s.split('.')[0]: the text before the first '.', all of s when it has none
SplitFirst(s) ==
    IF Contains(s, <<".">>) THEN Slice(s, 0, Index(s, <<".">>)) ELSE s

\* s.split('.')[-1]: the text after the last '.', all of s when it has none
SplitLast(s) ==
    IF Contains(s, <<".">>)
    THEN LET k == CHOOSE j \in 1..Len(s) :
                      /\ s[j] = "."
                      /\ \A m \in (j + 1)..Len(s) : s[m] # "."
         IN  SubSeq(s, k + 1, Len(s))
    ELSE s

UpperCase == <<"A","B","C","D","E","F","G","H","I","J","K","L","M",
               "N","O","P","Q","R","S","T","U","V","W","X","Y","Z">>
LowerCase == <<"a","b","c","d","e","f","g","h","i","j","k","l","m",
               "n","o","p","q","r","s","t","u","v","w","x","y","z">>

\* s.lower()
Lower(s) ==
    [k \in 1..Len(s) |->
        IF \E u \in 1..26 : UpperCase[u] = s[k]
        THEN LowerCase[CHOOSE u \in 1..26 : UpperCase[u] = s[k]]
        ELSE s[k]]

Digits == <<"0","1","2","3","4","5","6","7","8","9">>

\* '{}'.format(i) for a natural number i
RECURSIVE Format(_)
Format(i) ==
    IF i < 10 THEN <<Digits[i + 1]>>
    ELSE Format(i \div 10) \o <<Digits[(i % 10) + 1]>>

(***************************************************************************)
(* Program constants.                                                      *)
(***************************************************************************)
\* self.tex_replace = '[LATEX_SNIP]'
tex_replace == <<"[","L","A","T","E","X","_","S","N","I","P","]">>

\* the default of latex_tag, '[LATEX]'
default_tag == <<"[","L","A","T","E","X","]">>

\* the default folder_path of snip_to_texdoc and the folder of clean_figfolder
fig == <<"f","i","g","/">>

tex_snip_ == <<"t","e","x","_","s","n","i","p","_">>
dot_tex == <<".","t","e","x">>
dot_pdf == <<".","p","d","f">>
dot_png == <<".","p","n","g">>
dot_log == <<".","l","o","g">>
dot_aux == <<".","a","u","x">>
_medium_md == <<"_","m","e","d","i","u","m",".","m","d">>
png == <<"p","n","g">>
tex == <<"t","e","x">>


(***************************************************************************)
(* State.  The fields of md_textool, the local variables of the methods    *)
(* that are modelled step by step, the files on disk, and the position of  *)
(* main().                                                                 *)
(***************************************************************************)
VARIABLES
    md_path,                  \* self.md_path
    latex_tag,                \* self.latex_tag
    content,                  \* self.content
    n_snips,                  \* self.n_snips
    has_tex,                  \* self.has_tex
    tex_snips,                \* self.tex_snips
    tex_paths,                \* self.tex_paths
    converted_pdf_paths,      \* self.converted_pdf_paths
    converted_pdf_paths_idx,  \* self.converted_pdf_paths_idx
    bad_convert_idx,          \* self.bad_convert_idx
    image_paths,              \* self.image_paths
    image_paths_idx,          \* self.image_paths_idx
    new_content,              \* self.new_content
    new_md_path,              \* self.new_md_path, None until save_new_md sets it
    f_content,                \* find_texsnips: the local content
    f_tex_snips,              \* find_texsnips: the local tex_snips
    f_n_snips,                \* find_texsnips: the local n_snips
    i,                        \* position of the running for loop
    files,                    \* the paths of the files on disk
    written,                  \* the text save_new_md wrote, None before
    pc,                       \* the statement main() is at
    org,                      \* history: for each character of f_content, its
                              \* position in self.content (0: placeholder text)
    snip_org,                 \* history: the positions each snippet was cut from
    invocations,              \* history: each tex_to_pdf call of the loop, its
                              \* compiler runs and what the first run met
    trimmed                   \* history: the trim_tex calls, the last one first

vars == <<md_path, latex_tag, content, n_snips, has_tex, tex_snips, tex_paths,
          converted_pdf_paths, converted_pdf_paths_idx, bad_convert_idx,
          image_paths, image_paths_idx, new_content, new_md_path,
          f_content, f_tex_snips, f_n_snips, i, files, written, pc,
          org, snip_org, invocations, trimmed>>

\* self.tag_length
tag_length == Len(latex_tag)

(***************************************************************************)
(* Inputs.                                                                 *)
(***************************************************************************)
hash_tag == <<"#">>
S_tag == <<"S">>
bracket_tag == <<"]", "[">>

\* the tags of the model: a tag apart from the placeholder, the default tag,
\* a tag inside the placeholder, a tag the placeholder's two ends can complete
Tags == {hash_tag, default_tag, S_tag, bracket_tag}

\* the pieces documents are made of: the tag, plain text, the placeholder text
Tokens(tag) == {tag, <<"x">>, tex_replace}

RECURSIVE Docs(_, _)
Docs(tag, n) ==
    IF n = 0 THEN {<< >>}
    ELSE LET D == Docs(tag, n - 1)
         IN  D \cup {d \o t : d \in D, t \in Tokens(tag)}

doc_md == <<"d","o","c",".","m","d">>
a_b_md == <<"a",".","b",".","m","d">>
dir_doc_md == <<".","/","d","o","c",".","m","d">>
MdPaths == {doc_md, a_b_md, dir_doc_md}

\* files that may lie in the working folder before the run
fig_png == fig \o png
fig_old_PNG == fig \o <<"o","l","d",".","P","N","G">>
fig_notes_txt == fig \o <<"n","o","t","e","s",".","t","x","t">>
fig_stale_pdf == fig \o tex_snip_ \o <<"0">> \o dot_pdf
PreFiles == {fig_png, fig_old_PNG, fig_notes_txt, fig_stale_pdf}

(***************************************************************************)
(* __init__ (lines 48-67): the state after construction, the file at       *)
(* md_path read into content.  paths is the value of tex_paths ([] after   *)
(* construction) and at the statement the run starts from.                 *)
(***************************************************************************)
InitWith(tag, doc, path, folder, paths, at) ==
    /\ md_path = path
    /\ latex_tag = tag
    /\ content = doc
    /\ n_snips = 0
    /\ has_tex = FALSE
    /\ tex_snips = << >>
    /\ tex_paths = paths
    /\ converted_pdf_paths = << >>
    /\ converted_pdf_paths_idx = << >>
    /\ bad_convert_idx = << >>
    /\ image_paths = << >>
    /\ image_paths_idx = << >>
    /\ new_content = << >>
    /\ new_md_path = None
    /\ f_content = << >>
    /\ f_tex_snips = << >>
    /\ f_n_snips = 0
    /\ i = 0
    /\ files = folder \cup {path}
    /\ written = None
    /\ pc = at
    /\ org = << >>
    /\ snip_org = << >>
    /\ invocations = << >>
    /\ trimmed = << >>

Init ==
    \E tag \in Tags : \E doc \in Docs(tag, MaxTokens) :
        InitWith(tag, doc, doc_md, {}, << >>, "main")

(***************************************************************************)
(* find_texsnips (lines 92-114).                                           *)
(***************************************************************************)
\* lines 97-102: the loop goes round again iff the tag occurs in content and
\* occurs again after that occurrence
find_more(c, tag) ==
    /\ Contains(c, tag)
    /\ Contains(Slice(c, Index(c, tag) + Len(tag), Len(c)), tag)

\* the loop body with the assignment of line 109 left out
find_body_keeps_content(c, tag) ==
    LET n == Len(tag)
        idx == Index(c, tag)
        temp_post == Slice(c, idx + n, Len(c))
        idx_next == Index(temp_post, tag)
    IN  [snip |-> Slice(temp_post, 0, idx_next),
         content |-> c,
         cut |-> <<idx, idx, idx>>]

\* the loop body with the closing tag left in temp_post (line 106 without
\* the + n)
find_body_keeps_closing_tag(c, tag) ==
    LET n == Len(tag)
        idx == Index(c, tag)
        temp_pre == Slice(c, 0, idx)
        temp_post == Slice(c, idx + n, Len(c))
        idx_next == Index(temp_post, tag)
        snip == Slice(temp_post, 0, idx_next)
        rest == Slice(temp_post, idx_next, Len(temp_post))
    IN  [snip |-> snip,
         content |-> temp_pre \o tex_replace \o rest,
         cut |-> <<idx, idx + n, idx + n + idx_next>>]

\* lines 98-109, one round of the loop: the snippet appended and the new
\* content; cut is <<idx, where the snippet starts, where temp_post resumes>>
find_body(c, tag) ==
    LET n == Len(tag)
        idx == Index(c, tag)
        temp_pre == Slice(c, 0, idx)
        temp_post == Slice(c, idx + n, Len(c))
        idx_next == Index(temp_post, tag)
        snip == Slice(temp_post, 0, idx_next)
        rest == Slice(temp_post, idx_next + n, Len(temp_post))
    IN  [snip |-> snip,
         content |-> temp_pre \o tex_replace \o rest,
         cut |-> <<idx, idx + n, idx + n + idx_next + n>>]

\* lines 92-96
FindStart ==
    /\ pc = "main"
    /\ f_tex_snips' = << >>
    /\ f_content' = content
    /\ f_n_snips' = 0
    /\ org' = [k \in 1..Len(content) |-> k]
    /\ snip_org' = << >>
    /\ pc' = "find"
    /\ UNCHANGED <<md_path, latex_tag, content, n_snips, has_tex, tex_snips,
                   tex_paths, converted_pdf_paths, converted_pdf_paths_idx,
                   bad_convert_idx, image_paths, image_paths_idx, new_content,
                   new_md_path, i, files, written, invocations, trimmed>>

\* lines 97-109, one round of the while loop
FindStep ==
    /\ pc = "find"
    /\ find_more(f_content, latex_tag)
    /\ f_n_snips < IterCap
    /\ LET r == find_body(f_content, latex_tag)
           n == tag_length
       IN  /\ f_tex_snips' = Append(f_tex_snips, r.snip)
           /\ f_content' = r.content
           /\ snip_org' = Append(snip_org,
                  Slice(org, r.cut[2], r.cut[2] + Len(r.snip)))
           /\ org' = Slice(org, 0, r.cut[1])
                     \o [k \in 1..(Len(r.content) - r.cut[1]
                                   - (Len(org) - r.cut[3])) |-> 0]
                     \o Slice(org, r.cut[3], Len(org))
    /\ f_n_snips' = f_n_snips + 1
    /\ UNCHANGED <<md_path, latex_tag, content, n_snips, has_tex, tex_snips,
                   tex_paths, converted_pdf_paths, converted_pdf_paths_idx,
                   bad_convert_idx, image_paths, image_paths_idx, new_content,
                   new_md_path, i, files, written, pc, invocations, trimmed>>

\* the end of find_texsnips with new_content set only when snippets were
\* found
FindExit_content_only_with_snips ==
    /\ pc = "find"
    /\ ~find_more(f_content, latex_tag)
    /\ new_content' = IF f_tex_snips # << >> THEN f_content ELSE new_content
    /\ n_snips' = f_n_snips
    /\ tex_snips' = f_tex_snips
    /\ has_tex' = IF f_tex_snips # << >> THEN TRUE ELSE has_tex
    /\ pc' = "snip"
    /\ UNCHANGED <<md_path, latex_tag, content, tex_paths, converted_pdf_paths,
                   converted_pdf_paths_idx, bad_convert_idx, image_paths,
                   image_paths_idx, new_md_path, f_content, f_tex_snips,
                   f_n_snips, i, files, written, org, snip_org, invocations,
                   trimmed>>

\* lines 97, 101-102 and 110-114: the loop ends and the fields are set
FindExit ==
    /\ pc = "find"
    /\ ~find_more(f_content, latex_tag)
    /\ new_content' = f_content
    /\ n_snips' = f_n_snips
    /\ tex_snips' = f_tex_snips
    /\ has_tex' = IF f_tex_snips # << >> THEN TRUE ELSE has_tex
    /\ pc' = "snip"
    /\ UNCHANGED <<md_path, latex_tag, content, tex_paths, converted_pdf_paths,
                   converted_pdf_paths_idx, bad_convert_idx, image_paths,
                   image_paths_idx, new_md_path, f_content, f_tex_snips,
                   f_n_snips, i, files, written, org, snip_org, invocations,
                   trimmed>>

NextFind == FindStart \/ FindStep \/ FindExit

\* find_texsnips alone; the interpreter runs the loop on, round after round
SpecFind == Init /\ [][NextFind]_vars /\ WF_vars(NextFind)


(***************************************************************************)
(* snip_to_texdoc (lines 130-140), called by main() with folder_path left  *)
(* at 'fig/'.  Only the paths of the written files are kept: no operation  *)
(* of the program reads the text of a source file back.                    *)
(***************************************************************************)
\* line 137: folder_path + 'tex_snip_{}'.format(i) + '.tex'
out_path(folder_path, k) == folder_path \o tex_snip_ \o Format(k) \o dot_tex

SnipToTexdoc ==
    /\ pc = "snip"
    /\ LET new == IF tex_snips # << >>
                  THEN [k \in 1..Len(tex_snips) |-> out_path(fig, k - 1)]
                  ELSE << >>
       IN  /\ tex_paths' = tex_paths \o new
           /\ files' = files \cup {new[k] : k \in 1..Len(new)}
    /\ i' = 0
    /\ pc' = "compile"
    /\ UNCHANGED <<md_path, latex_tag, content, n_snips, has_tex, tex_snips,
                   converted_pdf_paths, converted_pdf_paths_idx,
                   bad_convert_idx, image_paths, image_paths_idx, new_content,
                   new_md_path, f_content, f_tex_snips, f_n_snips, written,
                   org, snip_org, invocations, trimmed>>

(***************************************************************************)
(* tex_to_pdf (lines 164-212) and convert_all_tex_to_pdf (lines 221-228).  *)
(* The compiler is outside the program: a run of it leaves its log under   *)
(* the job name and, when it succeeds, the pdf and the aux file.           *)
(***************************************************************************)
pdflatex(jobname, fs, succeeds) ==
    fs \cup {jobname \o dot_log}
       \cup (IF succeeds THEN {jobname \o dot_pdf, jobname \o dot_aux} ELSE {})

\* tex_to_pdf with a missing output counted as a success
tex_to_pdf_no_check(tex_path, out, fs, first, second) ==
    LET jobname == SplitFirst(IF out = None THEN tex_path ELSE out)
    IN  IF tex_path \in fs /\ Lower(SplitLast(tex_path)) = tex
        THEN [output |-> jobname \o dot_pdf,
              files |-> pdflatex(jobname, fs, first), runs |-> 1]
        ELSE [output |-> None, files |-> fs, runs |-> 0]

\* tex_to_pdf(tex_path, out_path); out is None for out_path = '' (lines
\* 165-166), first and second tell whether the first and the second run of
\* the compiler succeed.  The result: the value returned, the files on disk
\* afterwards, the number of compiler runs.
tex_to_pdf(tex_path, out, fs, first, second) ==
    LET jobname == SplitFirst(IF out = None THEN tex_path ELSE out)
        fs1 == pdflatex(jobname, fs, first)
    IN  IF tex_path \in fs
        THEN IF Lower(SplitLast(tex_path)) = tex
             THEN IF (jobname \o dot_pdf) \in fs1
                  THEN [output |-> jobname \o dot_pdf, files |-> fs1,
                        runs |-> 1]
                  ELSE [output |-> None,
                        files |-> pdflatex(jobname, fs1, second), runs |-> 2]
             ELSE [output |-> None, files |-> fs, runs |-> 0]
        ELSE [output |-> None, files |-> fs, runs |-> 0]

\* lines 221-228, one round of the for loop
ConvertStep ==
    /\ pc = "compile"
    /\ i < Len(tex_paths)
    /\ \E first \in BOOLEAN, second \in BOOLEAN :
         LET r == tex_to_pdf(tex_paths[i + 1], None, files, first, second)
         IN  /\ files' = r.files
             /\ invocations' = Append(invocations,
                    [runs |-> r.runs,
                     first |-> r.runs > 0 /\ first,
                     stale |-> (SplitFirst(tex_paths[i + 1]) \o dot_pdf)
                                   \in files])
             /\ IF r.output # None
                THEN /\ converted_pdf_paths' =
                            Append(converted_pdf_paths, r.output)
                     /\ converted_pdf_paths_idx' =
                            Append(converted_pdf_paths_idx, i)
                     /\ UNCHANGED bad_convert_idx
                ELSE /\ bad_convert_idx' = Append(bad_convert_idx, i)
                     /\ UNCHANGED <<converted_pdf_paths,
                                    converted_pdf_paths_idx>>
    /\ i' = i + 1
    /\ UNCHANGED <<md_path, latex_tag, content, n_snips, has_tex, tex_snips,
                   tex_paths, image_paths, image_paths_idx, new_content,
                   new_md_path, f_content, f_tex_snips, f_n_snips, written,
                   pc, org, snip_org, trimmed>>

\* line 221: the list is exhausted
ConvertEnd ==
    /\ pc = "compile"
    /\ i = Len(tex_paths)
    /\ i' = 0
    /\ pc' = "raster"
    /\ UNCHANGED <<md_path, latex_tag, content, n_snips, has_tex, tex_snips,
                   tex_paths, converted_pdf_paths, converted_pdf_paths_idx,
                   bad_convert_idx, image_paths, image_paths_idx, new_content,
                   new_md_path, f_content, f_tex_snips, f_n_snips, files,
                   written, org, snip_org, invocations, trimmed>>

(***************************************************************************)
(* trim_tex (lines 9-17).  An image is its size, the rows of the raster it *)
(* was cut from and the offset of the cut; a pixel outside the raster is   *)
(* 0, as Image.crop fills it.  One band of 8 bits.                         *)
(***************************************************************************)
\* line 14: the margin added around the bounding box
crop_margin == 50
\* line 12: the offset of ImageChops.add(diff, diff, 1, -50)
noise_offset == -50

Image(rows) ==
    [size |-> <<Len(rows[1]), Len(rows)>>, rows |-> rows, off |-> <<0, 0>>]

\* im.getpixel((x, y)) for (x, y) within the raster
getpixel(im, x, y) == im.rows[im.off[2] + y + 1][im.off[1] + x + 1]

Abs(v) == IF v < 0 THEN 0 - v ELSE v
Clip(v) == IF v < 0 THEN 0 ELSE IF v > 255 THEN 255 ELSE v
SetMin(A) == CHOOSE v \in A : \A u \in A : v <= u
SetMax(A) == CHOOSE v \in A : \A u \in A : v >= u

\* lines 10-12: the pixels of diff, a function of <<x, y>>
diff_of(im) ==
    LET bg == getpixel(im, 0, 0)
    IN  [q \in (0..(im.size[1] - 1)) \X (0..(im.size[2] - 1)) |->
            LET d == Abs(getpixel(im, q[1], q[2]) - bg)
            IN  Clip(d + d + noise_offset)]

\* diff.getbbox(): None when every pixel is 0
getbbox(d) ==
    LET nz == {q \in DOMAIN d : d[q] # 0}
    IN  IF nz = {} THEN None
        ELSE <<SetMin({q[1] : q \in nz}), SetMin({q[2] : q \in nz}),
               SetMax({q[1] : q \in nz}) + 1, SetMax({q[2] : q \in nz}) + 1>>

\* im.crop(box)
crop(im, box) ==
    [size |-> <<box[3] - box[1], box[4] - box[2]>>,
     rows |-> im.rows,
     off |-> <<im.off[1] + box[1], im.off[2] + box[2]>>]

\* trim_tex(im): raised tells that line 14 subscripted None (a TypeError),
\* im is the image returned otherwise
trim_tex(im) ==
    LET bbox == getbbox(diff_of(im))
    IN  IF bbox = None
        THEN [raised |-> TRUE]
        ELSE LET box == <<bbox[1] - crop_margin, bbox[2] - crop_margin,
                          bbox[3] + crop_margin, bbox[4] + crop_margin>>
             IN  [raised |-> FALSE,
                  im |-> IF box # << >> THEN crop(im, box) ELSE im]

\* the first pages the rasterizer may return: blank, with a mark too faint
\* to pass the threshold, with a dark mark
blank_page == Image(<<<<255, 255>>, <<255, 255>>>>)
faint_page == Image(<<<<255, 255>>, <<255, 235>>>>)
inked_page == Image(<<<<255, 255>>, <<255, 0>>>>)
Pages == {blank_page, faint_page, inked_page}

(***************************************************************************)
(* convert_pdfs_to_im (lines 235-244).                                     *)
(***************************************************************************)
\* lines 237-244, one round of the for loop; an exception of trim_tex ends
\* main()
RasterStep ==
    /\ pc = "raster"
    /\ i < Len(converted_pdf_paths)
    /\ \E page \in Pages :
         LET path == converted_pdf_paths[i + 1]
             path_im == SplitFirst(path) \o dot_png
             r == trim_tex(page)
         IN  /\ trimmed' = <<[im |-> page, res |-> r]>>
             /\ IF r.raised
                THEN /\ pc' = "raised"
                     /\ UNCHANGED <<files, image_paths, image_paths_idx, i>>
                ELSE /\ files' = files \cup {path_im}
                     /\ image_paths' = Append(image_paths, path_im)
                     /\ image_paths_idx' =
                            Append(image_paths_idx,
                                   converted_pdf_paths_idx[i + 1])
                     /\ i' = i + 1
                     /\ UNCHANGED pc
    /\ UNCHANGED <<md_path, latex_tag, content, n_snips, has_tex, tex_snips,
                   tex_paths, converted_pdf_paths, converted_pdf_paths_idx,
                   bad_convert_idx, new_content, new_md_path, f_content,
                   f_tex_snips, f_n_snips, written, org, snip_org,
                   invocations>>

\* line 237: the list is exhausted
RasterEnd ==
    /\ pc = "raster"
    /\ i = Len(converted_pdf_paths)
    /\ i' = 0
    /\ pc' = "insert"
    /\ UNCHANGED <<md_path, latex_tag, content, n_snips, has_tex, tex_snips,
                   tex_paths, converted_pdf_paths, converted_pdf_paths_idx,
                   bad_convert_idx, image_paths, image_paths_idx, new_content,
                   new_md_path, f_content, f_tex_snips, f_n_snips, files,
                   written, org, snip_org, invocations, trimmed>>

(***************************************************************************)
(* insert_images_in_md (lines 271-281).                                    *)
(***************************************************************************)
InSeq(v, s) == \E k \in 1..Len(s) : s[k] = v
\* s.index(v), 0-based
SeqIndex(s, v) ==
    (CHOOSE k \in 1..Len(s) : s[k] = v /\ \A j \in 1..(k - 1) : s[j] # v) - 1

\* line 276: '![{}]({})'.format(i, im_path)
replace_val(k, im_path) ==
    <<"!", "[">> \o Format(k) \o <<"]", "(">> \o im_path \o <<")">>

\* lines 272-280 from snippet k on: the content after the loop, None when
\* line 274 raises (the ordinal neither failed nor has an image)
RECURSIVE insert_from(_, _, _, _, _, _)
insert_from(c, k, snips, bad, paths_idx, paths) ==
    IF k >= Len(snips) THEN c
    ELSE IF ~InSeq(k, bad)
         THEN IF InSeq(k, paths_idx)
              THEN insert_from(
                       Replace1(c, tex_replace,
                                replace_val(k, paths[SeqIndex(paths_idx, k) + 1])),
                       k + 1, snips, bad, paths_idx, paths)
              ELSE None
         ELSE insert_from(Replace1(c, tex_replace, snips[k + 1]),
                          k + 1, snips, bad, paths_idx, paths)

InsertImagesInMd ==
    /\ pc = "insert"
    /\ LET c == insert_from(new_content, 0, tex_snips, bad_convert_idx,
                            image_paths_idx, image_paths)
       IN  IF c = None
           THEN pc' = "raised" /\ UNCHANGED new_content
           ELSE pc' = "save" /\ new_content' = c
    /\ UNCHANGED <<md_path, latex_tag, content, n_snips, has_tex, tex_snips,
                   tex_paths, converted_pdf_paths, converted_pdf_paths_idx,
                   bad_convert_idx, image_paths, image_paths_idx, new_md_path,
                   f_content, f_tex_snips, f_n_snips, i, files, written, org,
                   snip_org, invocations, trimmed>>

(***************************************************************************)
(* save_new_md (lines 287-290) and clean_figfolder (lines 296-302).        *)
(***************************************************************************)
\* lines 287 and 289: where the new document goes
medium_path(path) == SplitFirst(path) \o _medium_md

SaveNewMd ==
    /\ pc = "save"
    /\ new_md_path' = medium_path(md_path)
    /\ files' = files \cup {medium_path(md_path)}
    /\ written' = new_content
    /\ pc' = "clean"
    /\ UNCHANGED <<md_path, latex_tag, content, n_snips, has_tex, tex_snips,
                   tex_paths, converted_pdf_paths, converted_pdf_paths_idx,
                   bad_convert_idx, image_paths, image_paths_idx, new_content,
                   f_content, f_tex_snips, f_n_snips, i, org, snip_org,
                   invocations, trimmed>>

\* os.listdir(folder): the names of the files right under folder
listdir(folder, fs) ==
    {Slice(p, Len(folder), Len(p)) :
        p \in {q \in fs : /\ Len(q) > Len(folder)
                          /\ Slice(q, 0, Len(folder)) = folder
                          /\ ~Contains(Slice(q, Len(folder), Len(q)), <<"/">>)}}

\* line 298: the names clean_figfolder removes
to_remove(names) == {f \in names : Lower(SplitLast(f)) # png}

CleanFigfolder ==
    /\ pc = "clean"
    /\ files' = files \ {fig \o f : f \in to_remove(listdir(fig, files))}
    /\ pc' = "done"
    /\ UNCHANGED <<md_path, latex_tag, content, n_snips, has_tex, tex_snips,
                   tex_paths, converted_pdf_paths, converted_pdf_paths_idx,
                   bad_convert_idx, image_paths, image_paths_idx, new_content,
                   new_md_path, f_content, f_tex_snips, f_n_snips, i, written,
                   org, snip_org, invocations, trimmed>>

(***************************************************************************)
(* main() (lines 333-340): the stages in the order main() calls them.      *)
(***************************************************************************)
Next ==
    \/ FindStart
    \/ FindStep
    \/ FindExit
    \/ SnipToTexdoc
    \/ ConvertStep
    \/ ConvertEnd
    \/ RasterStep
    \/ RasterEnd
    \/ InsertImagesInMd
    \/ SaveNewMd
    \/ CleanFigfolder

Spec == Init /\ [][Next]_vars


(***************************************************************************)
(* Further specifications: the same program on other inputs.               *)
(***************************************************************************)
\* main() on short documents, every input path and every content of the
\* working folder
InitIO ==
    \E doc \in Docs(hash_tag, MaxTokensIO) :
        \E path \in MdPaths : \E folder \in SUBSET PreFiles :
            InitWith(hash_tag, doc, path, folder, << >>, "main")

SpecIO == InitIO /\ [][Next]_vars

\* convert_all_tex_to_pdf called on its own, on a list of source paths of
\* which some are no longer on disk and some are no .tex files
tex_0 == out_path(fig, 0)
tex_1 == out_path(fig, 1)
txt_2 == fig \o tex_snip_ \o <<"2", ".", "t", "x", "t">>
PathPool == {tex_0, tex_1, txt_2}

RECURSIVE Lists(_, _)
Lists(A, n) ==
    IF n = 0 THEN {<< >>}
    ELSE LET L == Lists(A, n - 1)
         IN  L \cup {Append(l, a) : l \in L, a \in A}

NextConvert == ConvertStep \/ ConvertEnd

InitConvert ==
    \E paths \in Lists(PathPool, MaxPaths) :
        \E folder \in SUBSET (PathPool \cup {fig_stale_pdf}) :
            InitWith(default_tag, << >>, doc_md, folder, paths, "compile")

SpecConvert == InitConvert /\ [][NextConvert]_vars


(***************************************************************************)
(* What the claims speak of, stated on the text of the document alone.     *)
(***************************************************************************)
\* the positions (0-based) of the occurrences of t in c from position from
\* on, left to right, none overlapping the one before
RECURSIVE Occurrences(_, _, _)
Occurrences(c, t, from) ==
    IF Contains(Slice(c, from, Len(c)), t)
    THEN LET k == from + Index(Slice(c, from, Len(c)), t)
         IN  <<k>> \o Occurrences(c, t, k + Len(t))
    ELSE << >>

\* the tag occurrences of the document and their number
TagOcc == Occurrences(content, latex_tag, 0)
TagCount == Len(TagOcc)

\* the texts between the 1st and 2nd, the 3rd and 4th, ... tag occurrence
PairedSnips ==
    [k \in 1..(TagCount \div 2) |->
        Slice(content, TagOcc[2 * k - 1] + tag_length, TagOcc[2 * k])]

\* the document with the k-th tag pair region (tags included) replaced by
\* fills[k], every other character kept; last is where the copy resumes
RECURSIVE Rebuilt(_, _, _)
Rebuilt(fills, k, last) ==
    IF k > Len(fills) THEN Slice(content, last, Len(content))
    ELSE Slice(content, last, TagOcc[2 * k - 1]) \o fills[k]
         \o Rebuilt(fills, k + 1, TagOcc[2 * k] + tag_length)

\* the image link of ordinal k as insert_images_in_md has it at hand
LinkOf(k) ==
    <<"!", "[">> \o Format(k) \o <<"]", "(">>
    \o image_paths[SeqIndex(image_paths_idx, k) + 1] \o <<")">>

\* the tag and the placeholder can overlap: placed d characters apart they
\* agree wherever both have a character
CanOverlap(t, r) ==
    \E d \in (1 - Len(t))..(Len(r) - 1) :
        \A k \in 1..Len(t) :
            (k + d >= 1 /\ k + d <= Len(r)) => t[k] = r[k + d]

\* find_texsnips has just returned; insert_images_in_md has just returned
Scanned == pc = "snip"
Inserted == pc = "save"

(***************************************************************************)
(* C1.  As claimed: for a document with an even number N of tag            *)
(* occurrences find_texsnips sets n_snips to N/2, tex_snips to the texts   *)
(* between the 1st-2nd, 3rd-4th, ... occurrences, and new_content to the   *)
(* document with each pair replaced by the placeholder, which then occurs  *)
(* exactly N/2 times in it.                                                *)
(***************************************************************************)
C1_EvenTagsScanned ==
    (Scanned /\ TagCount % 2 = 0) =>
        /\ n_snips = TagCount \div 2
        /\ tex_snips = PairedSnips
        /\ new_content =
               Rebuilt([k \in 1..(TagCount \div 2) |-> tex_replace], 1, 0)
        /\ Len(Occurrences(new_content, tex_replace, 0)) = TagCount \div 2

(***************************************************************************)
(* C2.  As claimed: when the tags are well paired and no snippet failed,   *)
(* after insert_images_in_md new_content is the document with the k-th tag *)
(* pair region replaced by the image link of ordinal k and every other     *)
(* character unchanged.                                                    *)
(***************************************************************************)
C2_RoundTrip ==
    (Inserted /\ TagCount % 2 = 0 /\ bad_convert_idx = << >>) =>
        /\ Len(image_paths_idx) = TagCount \div 2
        /\ new_content =
               Rebuilt([k \in 1..(TagCount \div 2) |-> LinkOf(k - 1)], 1, 0)

(***************************************************************************)
(* C3.  As claimed: when the tags are well paired, after                   *)
(* insert_images_in_md the place of the k-th region holds the raw text of  *)
(* snippet k when ordinal k is in bad_convert_idx and the image link of    *)
(* ordinal k otherwise.                                                    *)
(***************************************************************************)
C3_FailedKeepRawText ==
    (Inserted /\ TagCount % 2 = 0) =>
        /\ Len(image_paths_idx) + Len(bad_convert_idx) = TagCount \div 2
        /\ new_content =
               Rebuilt([k \in 1..(TagCount \div 2) |->
                           IF InSeq(k - 1, bad_convert_idx)
                           THEN PairedSnips[k] ELSE LinkOf(k - 1)], 1, 0)

(***************************************************************************)
(* C4.  No snippet holds a character that stood after the last tag         *)
(* occurrence of the document.                                             *)
(***************************************************************************)
TrailingNotCaptured ==
    \A k \in 1..Len(snip_org) : \A j \in 1..Len(snip_org[k]) :
        snip_org[k][j] <= TagOcc[TagCount] + tag_length

\* C4 as claimed: with an odd number of tag occurrences find_texsnips yields
\* one snippet fewer than floor(count/2), and nothing after the last tag is
\* captured
C4_OneFewerThanHalf ==
    (Scanned /\ TagCount % 2 = 1) =>
        /\ n_snips = (TagCount \div 2) - 1
        /\ TrailingNotCaptured

\* C4 as amended: with an odd number of tag occurrences find_texsnips yields
\* at least floor(count/2) snippets, exactly floor(count/2) when the tag
\* cannot overlap the placeholder, and nothing after the last tag is captured
C4_HalfRoundedDown ==
    (Scanned /\ TagCount % 2 = 1) =>
        /\ n_snips >= TagCount \div 2
        /\ ~CanOverlap(latex_tag, tex_replace) =>
               /\ n_snips = TagCount \div 2
               /\ tex_snips = PairedSnips
        /\ Len(tex_snips) = n_snips
        /\ TrailingNotCaptured

\* C4, its case: three or more tags, an odd number, text after the last one
C4_Witness ==
    /\ Scanned
    /\ TagCount % 2 = 1
    /\ TagCount >= 3
    /\ n_snips = TagCount \div 2
    /\ TagOcc[TagCount] + tag_length < Len(content)

(***************************************************************************)
(* C5.  A document without the tag: no snippet, has_tex false, no source   *)
(* file written, the compiler never run, and the content unchanged through *)
(* every stage and in the file written.                                    *)
(***************************************************************************)
C5_NoTagsNoChange ==
    ~Contains(content, latex_tag) =>
        /\ n_snips = 0
        /\ has_tex = FALSE
        /\ tex_snips = << >>
        /\ tex_paths = << >>
        /\ files \subseteq {md_path, medium_path(md_path)}
        /\ invocations = << >>
        /\ pc \notin {"main", "find"} => new_content = content
        /\ pc \in {"clean", "done"} => written = content

\* C5, its case: main() has ended on a document without the tag that holds
\* text, the placeholder text included
C5_Witness ==
    /\ pc = "done"
    /\ ~Contains(content, latex_tag)
    /\ Contains(content, tex_replace)

(***************************************************************************)
(* C6.  As claimed: after main() the working folder holds .png files only. *)
(***************************************************************************)
IsPngFile(name) ==
    /\ Len(name) > Len(dot_png)
    /\ Lower(Slice(name, Len(name) - Len(dot_png), Len(name))) = dot_png

C6_OnlyImagesLeft ==
    pc = "done" => \A f \in listdir(fig, files) : IsPngFile(f)

(***************************************************************************)
(* C7.  As claimed: the new document is written to the input path with its *)
(* last extension replaced by '_medium' and that extension, the text       *)
(* before the last '.' kept.                                               *)
(***************************************************************************)
StemOf(path) == Slice(path, 0, Len(path) - Len(SplitLast(path)) - 1)

C7_MediumBesideOriginal ==
    pc \in {"clean", "done"} =>
        new_md_path = StemOf(md_path) \o <<"_","m","e","d","i","u","m",".">>
                      \o SplitLast(md_path)

(***************************************************************************)
(* C8.  convert_all_tex_to_pdf: one tex_to_pdf call per path handled, at   *)
(* most two compiler runs in a call; a source that is on disk and ends in  *)
(* .tex is compiled once when the pdf is there after the first run and     *)
(* twice otherwise, and after two runs the ordinal is recorded as failed   *)
(* whatever the second run left; a source that is missing or no .tex file  *)
(* is recorded as failed without a compiler run; the loop handles every    *)
(* path, and after it each ordinal is in exactly one of                    *)
(* converted_pdf_paths_idx and bad_convert_idx.                            *)
(***************************************************************************)
Handled == IF pc = "compile" THEN i ELSE Len(tex_paths)

C8_CompileAtMostTwice ==
    /\ Len(invocations) = Handled
    /\ Len(converted_pdf_paths_idx) + Len(bad_convert_idx) = Handled
    /\ \A k \in 1..Handled :
         LET call == invocations[k]
             valid == /\ tex_paths[k] \in files
                      /\ Lower(SplitLast(tex_paths[k])) = tex
         IN  /\ call.runs \in {0, 1, 2}
             /\ InSeq(k - 1, converted_pdf_paths_idx)
                    # InSeq(k - 1, bad_convert_idx)
             /\ ~valid => (call.runs = 0 /\ InSeq(k - 1, bad_convert_idx))
             /\ valid => call.runs = (IF call.first \/ call.stale THEN 1 ELSE 2)
             /\ call.runs = 2 => InSeq(k - 1, bad_convert_idx)
             /\ call.runs = 1 => InSeq(k - 1, converted_pdf_paths_idx)
    /\ pc # "compile" =>
         \A k \in 0..(Len(tex_paths) - 1) :
             InSeq(k, converted_pdf_paths_idx) # InSeq(k, bad_convert_idx)

\* C8, its case: the loop has ended after a call without a compiler run, a
\* call with one and a later call with two whose retry left the pdf
C8_Witness ==
    /\ pc = "raster"
    /\ \E a, b, c \in 1..Len(invocations) :
         /\ invocations[a].runs = 0
         /\ invocations[b].runs = 2
         /\ invocations[c].runs = 1
         /\ a < c
         /\ (SplitFirst(tex_paths[b]) \o dot_pdf) \in files

(***************************************************************************)
(* C9.  As claimed: trim_tex on an image of which no pixel differs from    *)
(* the top left pixel beyond the threshold raises nothing and returns the  *)
(* image as it was.                                                        *)
(***************************************************************************)
Uniform(im) ==
    \A x \in 0..(im.size[1] - 1), y \in 0..(im.size[2] - 1) :
        2 * Abs(getpixel(im, x, y) - getpixel(im, 0, 0)) <= 0 - noise_offset

C9_UniformImageKept ==
    \A k \in 1..Len(trimmed) :
        Uniform(trimmed[k].im) =>
            /\ ~trimmed[k].res.raised
            /\ trimmed[k].res.im = trimmed[k].im

(***************************************************************************)
(* C10.  find_texsnips terminates, for every document and tag of the       *)
(* model, and when it has ended at most one tag occurrence is left in      *)
(* new_content.                                                            *)
(***************************************************************************)
C10_ScanTerminates ==
    /\ <>(pc = "snip")
    /\ [](pc = "snip" =>
            Len(Occurrences(new_content, latex_tag, 0)) <= 1)

\* C10, its case: the scan has ended after taking more snippets than the
\* document has tag pairs, from tag occurrences the placeholder brought in
C10_Witness ==
    /\ pc = "snip"
    /\ CanOverlap(latex_tag, tex_replace)
    /\ n_snips > TagCount \div 2
    /\ n_snips >= 3

====
